---- MODULE Spec2Model ----
(***************************************************************************)
(* Model of pkg/pivit/sign.go: the Sign workflow and the identity matcher  *)
(* (certificateContainsUserId, normalizeEmail, normalizeFingerprint,       *)
(* certificateContainsEmail).                                              *)
(*                                                                         *)
(* Go strings are modelled as sequences of one-character strings, byte     *)
(* slices as sequences of integers 0..255.                                 *)
(***************************************************************************)
EXTENDS Integers, Sequences, FiniteSets, TLC

VARIABLES
    opts,        \* *SignOpts handed to Sign
    cert,        \* certificate stored in the slot of the card
    pc,          \* position inside Sign (or inside the matcher harness)
    session,     \* smartcard session yk: "none" | "open" | "closed"
    f,           \* input reader f: "nil" | "file" | "stdin"
    closed,      \* readers on which Close has been called
    statusFile,  \* TRUE when SetupStatus installed a destination
    statusOut,   \* records written to the status channel
    idErr,       \* value returned by certificateContainsUserId
    dataBuf,     \* bytes copied from the input
    sd,          \* the cms.SignedData under construction
    der,         \* result of sd.ToDER()
    stdout,      \* bytes written to os.Stdout
    result,      \* return value of Sign: "running", "nil", an error text, "panic"
    trace        \* calls made so far, in program order

vars == <<opts, cert, pc, session, f, closed, statusFile, statusOut, idErr,
          dataBuf, sd, der, stdout, result, trace>>

----------------------------------------------------------------------------
(* Bounds *)

MaxLen == 4          \* longest identity hint enumerated for the matcher
MaxSans == 1         \* most SAN email addresses on a certificate
FpLen == 2           \* number of hex digits of a fingerprint
MaxData == 2         \* longest input message
MaxFileArgs == 2     \* most positional file arguments
LongLen == 50        \* length of the one long input message

SeqsUpTo(S, n) == UNION {[1..k -> S] : k \in 0..n}

Alphabet == {"<", ">", "@", "0", "x", "a", "A"}
HexDigits == {"0", "a"}
EmailPool == {<<"a", "@">>, <<"@", "a">>, <<"A", "@">>, <<"<", "@", "a">>,
              <<"a", "a">>}
DataBytes == {104, 105}

\* the messages Sign may read: every short one, and one whose armored
\* signature spans more than one line
LongData == [i \in 1..LongLen |-> 104 + (i % 2)]
Messages == SeqsUpTo(DataBytes, MaxData) \cup {LongData}


----------------------------------------------------------------------------
(* package strings *)

RECURSIVE IndexFrom(_, _, _)
IndexFrom(s, c, i) ==
    IF i > Len(s) THEN -1
    ELSE IF s[i] = c THEN i - 1
    ELSE IndexFrom(s, c, i + 1)

\* strings.Index(s, c) for a one-character c: 0-based offset of the first c, or -1
Index(s, c) == IndexFrom(s, c, 1)

\* strings.ContainsRune(s, c)
ContainsRune(s, c) == Index(s, c) >= 0

\* s[lo:hi] is in bounds; Go panics otherwise
SliceOk(s, lo, hi) == 0 <= lo /\ lo <= hi /\ hi <= Len(s)

\* s[lo:hi]
Slice(s, lo, hi) == SubSeq(s, lo + 1, hi)

HasPrefix(s, p) == Len(s) >= Len(p) /\ SubSeq(s, 1, Len(p)) = p

\* strings.TrimPrefix(s, p)
TrimPrefix(s, p) == IF HasPrefix(s, p) THEN SubSeq(s, Len(p) + 1, Len(s)) ELSE s

\* simple case folding of one character
Fold(c) ==
    CASE c = "A" -> "a"
      [] c = "B" -> "b"
      [] c = "C" -> "c"
      [] c = "D" -> "d"
      [] c = "E" -> "e"
      [] c = "F" -> "f"
      [] c = "X" -> "x"
      [] OTHER -> c

\* strings.EqualFold(s, t)
EqualFold(s, t) ==
    /\ Len(s) = Len(t)
    /\ \A i \in 1..Len(s) : Fold(s[i]) = Fold(t[i])

----------------------------------------------------------------------------
(* identity matching, sign.go:111-160 *)

\* utils.CertHexFingerprint(cert): hex digest of the certificate's DER encoding
CertHexFingerprint(c) == c.Fingerprint

normalizeEmail(userId) ==
    LET emailStartIndex == Index(userId, "<") IN
    IF emailStartIndex # -1
    THEN LET emailEndIndex == Index(userId, ">") IN
         IF SliceOk(userId, emailStartIndex, emailEndIndex)
         THEN [email |-> Slice(userId, emailStartIndex, emailEndIndex), err |-> "nil"]
         ELSE [email |-> <<>>, err |-> "panic"]
    ELSE IF ContainsRune(userId, "@")
         THEN [email |-> userId, err |-> "nil"]
         ELSE [email |-> <<>>, err |-> "user id doesn't contain email address"]

\* variant: the 0x prefix is kept
normalizeFingerprint_NoTrim(userId) == userId

normalizeFingerprint(userId) == TrimPrefix(userId, <<"0", "x">>)

RECURSIVE EmailLoop(_, _, _)
EmailLoop(addrs, email, i) ==
    IF i > Len(addrs) THEN FALSE
    ELSE IF addrs[i] = email THEN TRUE
    ELSE EmailLoop(addrs, email, i + 1)

certificateContainsEmail(certificate, email) ==
    EmailLoop(certificate.EmailAddresses, email, 1)

\* Returned value: err is "nil", the text of the error, or "panic" when the
\* call does not return; arg is the %s argument of the error; sanCompared
\* tells whether the SAN email list was consulted.
certificateContainsUserId(c, userId) ==
    LET n == normalizeEmail(userId) IN
    IF n.err = "panic"
    THEN [err |-> "panic", arg |-> <<>>, sanCompared |-> FALSE]
    ELSE IF n.err # "nil"
    THEN LET fingerprint == normalizeFingerprint(userId) IN
         IF ~EqualFold(CertHexFingerprint(c), fingerprint)
         THEN [err |-> "no certificate found with fingerprint",
               arg |-> fingerprint, sanCompared |-> FALSE]
         ELSE [err |-> "nil", arg |-> <<>>, sanCompared |-> FALSE]
    ELSE IF ~certificateContainsEmail(c, n.email)
         THEN [err |-> "no certificate found with email",
               arg |-> n.email, sanCompared |-> TRUE]
         ELSE [err |-> "nil", arg |-> <<>>, sanCompared |-> TRUE]

----------------------------------------------------------------------------
(* cms.SignedData as Sign drives it, sign.go:63-93 *)

NoSd == [content |-> <<>>, detached |-> FALSE, signers |-> 0,
         timestamps |-> 0, certs |-> 0]

\* cms.NewSignedData(data): the content is encapsulated in the structure
NewSignedData(data) == [NoSd EXCEPT !.content = data]

\* sd.Sign(chain, signer): one SignerInfo, the chain is recorded
SdSigned(s) == [s EXCEPT !.signers = s.signers + 1, !.certs = 1]

\* sd.Detached(): the encapsulated content is removed
SdDetached(s) == [s EXCEPT !.detached = TRUE, !.content = <<>>]

\* sd.AddTimestamps(url): a timestamp token on the SignerInfo
SdTimestamped(s) == [s EXCEPT !.timestamps = s.signers]

\* sd.SetCertificates(chain)
SdSetCertificates(s, n) == [s EXCEPT !.certs = n]

\* sd.ToDER(): SEQUENCE, then the OCTET STRING of the encapsulated content
\* unless detached, then the certificate set and the signer infos
ToDER(s) ==
    <<48>> \o (IF s.detached THEN <<>> ELSE <<4, Len(s.content)>> \o s.content)
           \o <<160, s.certs>> \o <<49, s.signers, s.timestamps>>

----------------------------------------------------------------------------
(* encoding/pem Encode with Type "SIGNED MESSAGE" and no headers, sign.go:97 *)

PemBegin == <<45, 45, 45, 45, 45, 66, 69, 71, 73, 78, 32, 83, 73, 71, 78, 69,
              68, 32, 77, 69, 83, 83, 65, 71, 69, 45, 45, 45, 45, 45, 10>>
PemEnd == <<45, 45, 45, 45, 45, 69, 78, 68, 32, 83, 73, 71, 78, 69, 68, 32,
            77, 69, 83, 83, 65, 71, 69, 45, 45, 45, 45, 45, 10>>
PemLineLength == 64

\* character of the standard base64 alphabet for a 6-bit value
B64Char(v) ==
    IF v < 26 THEN 65 + v
    ELSE IF v < 52 THEN 97 + (v - 26)
    ELSE IF v < 62 THEN 48 + (v - 52)
    ELSE IF v = 62 THEN 43 ELSE 47

\* variant: unpadded encoding
RECURSIVE Base64_NoPad(_)
Base64_NoPad(b) ==
    IF Len(b) = 0 THEN <<>>
    ELSE IF Len(b) = 1
    THEN <<B64Char(b[1] \div 4), B64Char((b[1] % 4) * 16)>>
    ELSE IF Len(b) = 2
    THEN <<B64Char(b[1] \div 4),
           B64Char((b[1] % 4) * 16 + b[2] \div 16),
           B64Char((b[2] % 16) * 4)>>
    ELSE <<B64Char(b[1] \div 4),
           B64Char((b[1] % 4) * 16 + b[2] \div 16),
           B64Char((b[2] % 16) * 4 + b[3] \div 64),
           B64Char(b[3] % 64)>> \o Base64_NoPad(SubSeq(b, 4, Len(b)))

RECURSIVE Base64(_)
Base64(b) ==
    IF Len(b) = 0 THEN <<>>
    ELSE IF Len(b) = 1
    THEN <<B64Char(b[1] \div 4), B64Char((b[1] % 4) * 16), 61, 61>>
    ELSE IF Len(b) = 2
    THEN <<B64Char(b[1] \div 4),
           B64Char((b[1] % 4) * 16 + b[2] \div 16),
           B64Char((b[2] % 16) * 4), 61>>
    ELSE <<B64Char(b[1] \div 4),
           B64Char((b[1] % 4) * 16 + b[2] \div 16),
           B64Char((b[2] % 16) * 4 + b[3] \div 64),
           B64Char(b[3] % 64)>> \o Base64(SubSeq(b, 4, Len(b)))

RECURSIVE BreakLines(_)
BreakLines(t) ==
    IF Len(t) = 0 THEN <<>>
    ELSE IF Len(t) <= PemLineLength THEN t \o <<10>>
    ELSE SubSeq(t, 1, PemLineLength) \o <<10>>
         \o BreakLines(SubSeq(t, PemLineLength + 1, Len(t)))

PemEncode(bytes) == PemBegin \o BreakLines(Base64(bytes)) \o PemEnd

----------------------------------------------------------------------------
(* package status *)

\* status.SetupStatus(fd): a destination is installed for a valid descriptor
SetupStatus(fd) == fd > 0

\* a status emit: one record when a destination is installed, else nothing
Emit(rec) == IF statusFile THEN Append(statusOut, rec) ELSE statusOut

BeginSigningRec == [ev |-> "BEGIN_SIGNING", detached |-> FALSE, fpr |-> <<>>]
SigCreatedRec(c, detached) ==
    [ev |-> "SIG_CREATED", detached |-> detached, fpr |-> CertHexFingerprint(c)]

----------------------------------------------------------------------------
(* Inputs of the Sign workflow *)

Certs == [EmailAddresses : SeqsUpTo(EmailPool, MaxSans),
          Fingerprint : [1..FpLen -> HexDigits]]

SignCerts == {[EmailAddresses |-> << <<"a", "@">> >>, Fingerprint |-> <<"a", "a">>],
              [EmailAddresses |-> << <<"@", "a">> >>, Fingerprint |-> <<"0", "a">>]}

SignHints == {<<"a", "@">>, <<"<", "@", "a", ">">>, <<"a", "<">>,
              <<"0", "x", "A", "a">>, <<"0", "a">>}

SignOpts == [StatusFd : {0, 3},
             Detach : BOOLEAN,
             Armor : BOOLEAN,
             UserId : SignHints,
             TimestampAuthority : {<<>>, <<"u">>},
             FileArgs : SeqsUpTo({"m"}, MaxFileArgs)]

NoErr == [err |-> "pending", arg |-> <<>>, sanCompared |-> FALSE]

Blank ==
    /\ session = "none"
    /\ f = "nil"
    /\ closed = {}
    /\ statusFile = FALSE
    /\ statusOut = <<>>
    /\ idErr = NoErr
    /\ dataBuf = <<>>
    /\ sd = NoSd
    /\ der = <<>>
    /\ stdout = <<>>
    /\ result = "running"
    /\ trace = <<>>

Init ==
    /\ opts \in SignOpts
    /\ cert \in SignCerts
    /\ pc = "GetSigner"
    /\ Blank

----------------------------------------------------------------------------
(* Sign, sign.go:28-109 *)

\* variant: no deferred close of the input file
Return_NoClose(err) ==
    /\ result' = err
    /\ pc' = "done"
    /\ closed' = closed

\* a return statement: the deferred f.Close() runs when it was registered
Return(err) ==
    /\ result' = err
    /\ pc' = "done"
    /\ closed' = IF f = "file" THEN closed \cup {"file"} ELSE closed

Goto(l) ==
    /\ pc' = l
    /\ UNCHANGED <<result, closed>>

\* sign.go:29-32
GetSigner ==
    /\ pc = "GetSigner"
    /\ trace' = Append(trace, "GetSigner")
    /\ \E ok \in BOOLEAN :
         IF ok THEN session' = "open" /\ Goto("Certificate")
               ELSE session' = session /\ Return("open PIV for signing")
    /\ UNCHANGED <<opts, cert, f, statusFile, statusOut, idErr, dataBuf, sd,
                   der, stdout>>

\* sign.go:34-38
Certificate ==
    /\ pc = "Certificate"
    /\ trace' = Append(trace, "Certificate")
    /\ \E ok \in BOOLEAN :
         IF ok THEN Goto("certificateContainsUserId")
               ELSE Return("get identity certificate")
    /\ UNCHANGED <<opts, cert, session, f, statusFile, statusOut, idErr,
                   dataBuf, sd, der, stdout>>

\* variant: the outcome of the identity check is not acted upon
ValidateIdentity_IgnoreMismatch ==
    /\ pc = "certificateContainsUserId"
    /\ trace' = Append(trace, "certificateContainsUserId")
    /\ idErr' = certificateContainsUserId(cert, opts.UserId)
    /\ IF idErr'.err = "panic" THEN Return("panic") ELSE Goto("SetupStatus")
    /\ UNCHANGED <<opts, cert, session, f, statusFile, statusOut, dataBuf, sd,
                   der, stdout>>

\* sign.go:40-42
ValidateIdentity ==
    /\ pc = "certificateContainsUserId"
    /\ trace' = Append(trace, "certificateContainsUserId")
    /\ idErr' = certificateContainsUserId(cert, opts.UserId)
    /\ IF idErr'.err = "nil" THEN Goto("SetupStatus")
       ELSE IF idErr'.err = "panic" THEN Return("panic")
       ELSE Return("no suitable certificate found")
    /\ UNCHANGED <<opts, cert, session, f, statusFile, statusOut, dataBuf, sd,
                   der, stdout>>

\* variant: an unusable status descriptor is treated as an error of Sign
SetupStatusStep_FailsOnInvalid ==
    /\ pc = "SetupStatus"
    /\ trace' = Append(trace, "SetupStatus")
    /\ statusFile' = SetupStatus(opts.StatusFd)
    /\ IF statusFile' THEN Goto("Open") ELSE Return("setup status")
    /\ UNCHANGED <<opts, cert, session, f, statusOut, idErr, dataBuf, sd, der,
                   stdout>>

\* sign.go:44-45
SetupStatusStep ==
    /\ pc = "SetupStatus"
    /\ trace' = Append(trace, "SetupStatus")
    /\ statusFile' = SetupStatus(opts.StatusFd)
    /\ Goto("Open")
    /\ UNCHANGED <<opts, cert, session, f, statusOut, idErr, dataBuf, sd, der,
                   stdout>>

\* variant: the first file argument is opened whenever there is one
OpenInput_AnyArgs ==
    /\ pc = "Open"
    /\ IF Len(opts.FileArgs) >= 1
       THEN /\ trace' = Append(trace, "os.Open")
            /\ \E ok \in BOOLEAN :
                 IF ok THEN f' = "file" /\ Goto("Copy")
                       ELSE f' = "nil" /\ Return("open message file")
       ELSE /\ trace' = trace
            /\ f' = "stdin"
            /\ Goto("Copy")
    /\ UNCHANGED <<opts, cert, session, statusFile, statusOut, idErr, dataBuf,
                   sd, der, stdout>>

\* sign.go:46-56
OpenInput ==
    /\ pc = "Open"
    /\ IF Len(opts.FileArgs) = 1
       THEN /\ trace' = Append(trace, "os.Open")
            /\ \E ok \in BOOLEAN :
                 IF ok THEN f' = "file" /\ Goto("Copy")
                       ELSE f' = "nil" /\ Return("open message file")
       ELSE /\ trace' = trace
            /\ f' = "stdin"
            /\ Goto("Copy")
    /\ UNCHANGED <<opts, cert, session, statusFile, statusOut, idErr, dataBuf,
                   sd, der, stdout>>

\* sign.go:58-61
ReadInput ==
    /\ pc = "Copy"
    /\ trace' = Append(trace, "io.Copy")
    /\ \E data \in Messages, ok \in BOOLEAN :
         /\ dataBuf' = data
         /\ IF ok THEN Goto("NewSignedData")
                  ELSE Return("read message to sign")
    /\ UNCHANGED <<opts, cert, session, f, statusFile, statusOut, idErr, sd,
                   der, stdout>>

\* variant: the begin-signing marker is emitted before sd.Sign is driven
BuildSignedData_EmitsBegin ==
    /\ pc = "NewSignedData"
    /\ trace' = Append(Append(trace, "NewSignedData"), "EmitBeginSigning")
    /\ \E ok \in BOOLEAN :
         IF ok THEN sd' = NewSignedData(dataBuf) /\ Goto("Sign")
               ELSE sd' = sd /\ Return("create signed data")
    /\ statusOut' = Emit(BeginSigningRec)
    /\ UNCHANGED <<opts, cert, session, f, statusFile, idErr, dataBuf, der,
                   stdout>>

\* sign.go:63-66
BuildSignedData ==
    /\ pc = "NewSignedData"
    /\ trace' = Append(trace, "NewSignedData")
    /\ \E ok \in BOOLEAN :
         IF ok THEN sd' = NewSignedData(dataBuf) /\ Goto("Sign")
               ELSE sd' = sd /\ Return("create signed data")
    /\ UNCHANGED <<opts, cert, session, f, statusFile, statusOut, idErr,
                   dataBuf, der, stdout>>

\* sign.go:68-70; sd.Sign drives the private-key operation of the card
\* through yubikeySigner, or fails before reaching it
SdSign ==
    /\ pc = "Sign"
    /\ \E outcome \in {"ok", "signer failed", "failed before signer"} :
         /\ trace' = IF outcome = "failed before signer"
                     THEN Append(trace, "sd.Sign")
                     ELSE Append(Append(trace, "sd.Sign"), "yubikeySigner.Sign")
         /\ IF outcome = "ok" THEN sd' = SdSigned(sd) /\ Goto("EmitBeginSigning")
                              ELSE sd' = sd /\ Return("sign message")
    /\ UNCHANGED <<opts, cert, session, f, statusFile, statusOut, idErr,
                   dataBuf, der, stdout>>

\* variant: the begin-signing marker is left out
EmitBeginSigning_Omitted ==
    /\ pc = "EmitBeginSigning"
    /\ Goto("Detached")
    /\ UNCHANGED <<opts, cert, session, f, statusFile, statusOut, idErr,
                   dataBuf, sd, der, stdout, trace>>

\* sign.go:74
EmitBeginSigning ==
    /\ pc = "EmitBeginSigning"
    /\ trace' = Append(trace, "EmitBeginSigning")
    /\ statusOut' = Emit(BeginSigningRec)
    /\ Goto("Detached")
    /\ UNCHANGED <<opts, cert, session, f, statusFile, idErr, dataBuf, sd, der,
                   stdout>>

\* variant: the detach request is ignored
MarkDetached_Never ==
    /\ pc = "Detached"
    /\ Goto("AddTimestamps")
    /\ UNCHANGED <<opts, cert, session, f, statusFile, statusOut, idErr,
                   dataBuf, sd, der, stdout, trace>>

\* sign.go:75-77
MarkDetached ==
    /\ pc = "Detached"
    /\ IF opts.Detach
       THEN trace' = Append(trace, "sd.Detached") /\ sd' = SdDetached(sd)
       ELSE trace' = trace /\ sd' = sd
    /\ Goto("AddTimestamps")
    /\ UNCHANGED <<opts, cert, session, f, statusFile, statusOut, idErr,
                   dataBuf, der, stdout>>

\* variant: a timestamp is requested whatever the authority URL
AddTimestamps_Always ==
    /\ pc = "AddTimestamps"
    /\ trace' = Append(trace, "sd.AddTimestamps")
    /\ \E ok \in BOOLEAN :
         IF ok THEN sd' = SdTimestamped(sd) /\ Goto("SetCertificates")
               ELSE sd' = sd /\ Return("add timestamp to signature")
    /\ UNCHANGED <<opts, cert, session, f, statusFile, statusOut, idErr,
                   dataBuf, der, stdout>>

\* variant: a failed timestamp request does not stop the workflow
AddTimestamps_IgnoreError ==
    /\ pc = "AddTimestamps"
    /\ IF Len(opts.TimestampAuthority) > 0
       THEN /\ trace' = Append(trace, "sd.AddTimestamps")
            /\ \E ok \in BOOLEAN :
                 sd' = IF ok THEN SdTimestamped(sd) ELSE sd
       ELSE /\ trace' = trace
            /\ sd' = sd
    /\ Goto("SetCertificates")
    /\ UNCHANGED <<opts, cert, session, f, statusFile, statusOut, idErr,
                   dataBuf, der, stdout>>

\* sign.go:79-83
AddTimestamps ==
    /\ pc = "AddTimestamps"
    /\ IF Len(opts.TimestampAuthority) > 0
       THEN /\ trace' = Append(trace, "sd.AddTimestamps")
            /\ \E ok \in BOOLEAN :
                 IF ok THEN sd' = SdTimestamped(sd) /\ Goto("SetCertificates")
                       ELSE sd' = sd /\ Return("add timestamp to signature")
       ELSE /\ trace' = trace
            /\ sd' = sd
            /\ Goto("SetCertificates")
    /\ UNCHANGED <<opts, cert, session, f, statusFile, statusOut, idErr,
                   dataBuf, der, stdout>>

\* sign.go:85-88
SetCertificates ==
    /\ pc = "SetCertificates"
    /\ trace' = Append(trace, "sd.SetCertificates")
    /\ \E ok \in BOOLEAN :
         IF ok THEN sd' = SdSetCertificates(sd, 1) /\ Goto("ToDER")
               ELSE sd' = sd /\ Return("set certificates in signature")
    /\ UNCHANGED <<opts, cert, session, f, statusFile, statusOut, idErr,
                   dataBuf, der, stdout>>

\* variant: the signature-created record is emitted before serializing
Serialize_EmitsFirst ==
    /\ pc = "ToDER"
    /\ trace' = Append(Append(trace, "EmitSigCreated"), "sd.ToDER")
    /\ statusOut' = Emit(SigCreatedRec(cert, opts.Detach))
    /\ \E ok \in BOOLEAN :
         IF ok THEN der' = ToDER(sd) /\ Goto("Write")
               ELSE der' = der /\ Return("serialize signature")
    /\ UNCHANGED <<opts, cert, session, f, statusFile, idErr, dataBuf, sd,
                   stdout>>

\* sign.go:90-93
Serialize ==
    /\ pc = "ToDER"
    /\ trace' = Append(trace, "sd.ToDER")
    /\ \E ok \in BOOLEAN :
         IF ok THEN der' = ToDER(sd) /\ Goto("EmitSigCreated")
               ELSE der' = der /\ Return("serialize signature")
    /\ UNCHANGED <<opts, cert, session, f, statusFile, statusOut, idErr,
                   dataBuf, sd, stdout>>

\* sign.go:95
EmitSigCreated ==
    /\ pc = "EmitSigCreated"
    /\ trace' = Append(trace, "EmitSigCreated")
    /\ statusOut' = Emit(SigCreatedRec(cert, opts.Detach))
    /\ Goto("Write")
    /\ UNCHANGED <<opts, cert, session, f, statusFile, idErr, dataBuf, sd, der,
                   stdout>>

\* bytes that Sign hands to os.Stdout, sign.go:96-103
Output(armor, bytes) == IF armor THEN PemEncode(bytes) ELSE bytes

\* variant: the error of the write is dropped
WriteOutput_SwallowsError ==
    /\ pc = "Write"
    /\ trace' = Append(trace, "Write")
    /\ LET out == Output(opts.Armor, der) IN
       \E n \in 0..Len(out) :
            stdout' = SubSeq(out, 1, n) /\ Return("nil")
    /\ UNCHANGED <<opts, cert, session, f, statusFile, statusOut, idErr,
                   dataBuf, sd, der>>

\* sign.go:96-108; a failed write leaves a proper prefix on os.Stdout
WriteOutput ==
    /\ pc = "Write"
    /\ trace' = Append(trace, "Write")
    /\ LET out == Output(opts.Armor, der) IN
       \/ stdout' = out /\ Return("nil")
       \/ \E n \in 0..(Len(out) - 1) :
            stdout' = SubSeq(out, 1, n) /\ Return("write signature")
    /\ UNCHANGED <<opts, cert, session, f, statusFile, statusOut, idErr,
                   dataBuf, sd, der>>

Next ==
    \/ GetSigner
    \/ Certificate
    \/ ValidateIdentity
    \/ SetupStatusStep
    \/ OpenInput
    \/ ReadInput
    \/ BuildSignedData
    \/ SdSign
    \/ EmitBeginSigning
    \/ MarkDetached
    \/ AddTimestamps
    \/ SetCertificates
    \/ Serialize
    \/ EmitSigCreated
    \/ WriteOutput

Spec == Init /\ [][Next]_vars

----------------------------------------------------------------------------
(* The identity matcher on its own: every hint against every certificate *)

Hints == SeqsUpTo(Alphabet, MaxLen)

MatchInit ==
    /\ opts \in [StatusFd : {0}, Detach : {FALSE}, Armor : {FALSE},
                 UserId : Hints, TimestampAuthority : {<<>>},
                 FileArgs : {<<>>}]
    /\ cert \in Certs
    /\ pc = "match"
    /\ Blank

\* sign.go:111-125, called on the drawn certificate and hint
MatchCall ==
    /\ pc = "match"
    /\ pc' = "matched"
    /\ idErr' = certificateContainsUserId(cert, opts.UserId)
    /\ UNCHANGED <<opts, cert, session, f, closed, statusFile, statusOut,
                   dataBuf, sd, der, stdout, result, trace>>

MatchNext == MatchCall

MatchSpec == MatchInit /\ [][MatchNext]_vars

----------------------------------------------------------------------------
(* Vocabulary of the properties *)

Hint == opts.UserId
SanSet(c) == {c.EmailAddresses[i] : i \in DOMAIN c.EmailAddresses}

\* 0-based offset of the first ">" after the first "<", or -1
ClosingAfterOpen(h) ==
    IF Index(h, "<") = -1 THEN -1 ELSE IndexFrom(h, ">", Index(h, "<") + 2)

\* the hint has the form  Name <email>
AngleForm(h) == Index(h, "<") # -1 /\ ClosingAfterOpen(h) # -1

\* the characters strictly between the first "<" and the first later ">"
Between(h) == SubSeq(h, Index(h, "<") + 2, ClosingAfterOpen(h))

\* a "<" without a closing ">", or a first ">" that precedes the first "<"
Malformed(h) ==
    /\ Index(h, "<") # -1
    /\ \/ Index(h, ">") = -1
       \/ Index(h, ">") < Index(h, "<")

LowerCase(c) == IF c = "A" THEN "a" ELSE c
SameIgnoringCase(s, t) ==
    /\ Len(s) = Len(t)
    /\ \A i \in 1..Len(s) : LowerCase(s[i]) = LowerCase(t[i])

StripOne0x(h) ==
    IF Len(h) >= 2 /\ h[1] = "0" /\ h[2] = "x" THEN SubSeq(h, 3, Len(h)) ELSE h

FingerprintForm(h) == Index(h, "<") = -1 /\ Index(h, "@") = -1

\* the match relation of the identity matcher as the specification words it
IntendedMatch(c, h) ==
    IF Index(h, "<") # -1
    THEN AngleForm(h) /\ Between(h) \in SanSet(c)
    ELSE IF Index(h, "@") # -1
    THEN h \in SanSet(c)
    ELSE SameIgnoringCase(c.Fingerprint, StripOne0x(h))

MismatchErrors == {"no certificate found with fingerprint",
                   "no certificate found with email"}

Count(tr, x) == Cardinality({i \in DOMAIN tr : tr[i] = x})
Precedes(tr, a, b) ==
    \A j \in DOMAIN tr : tr[j] = b => \E i \in 1..(j - 1) : tr[i] = a
Events(log) == [i \in DOMAIN log |-> log[i].ev]

----------------------------------------------------------------------------
(* Identity matcher properties, checked under MatchSpec *)

\* C1: for a hint of the form Name <email> the token compared against the
\* certificate is the text strictly between the first "<" and the first later
\* ">", so the call succeeds when the SAN email list contains that text.
C1_AngleEmailMatches ==
    (pc = "matched" /\ AngleForm(Hint))
        => /\ normalizeEmail(Hint).err = "nil"
           /\ normalizeEmail(Hint).email = Between(Hint)
           /\ (Between(Hint) \in SanSet(cert) => idErr.err = "nil")

\* C2: a hint with "<" but no closing ">", or whose first ">" precedes the
\* first "<", yields an error value and never a panic.
C2_MalformedIsError ==
    (pc = "matched" /\ Malformed(Hint))
        => idErr.err \notin {"nil", "panic"}

\* C3: the call succeeds exactly when the hint's email is one of the SAN
\* emails (case-sensitively) or the hint's fingerprint equals the
\* certificate's ignoring case, and otherwise returns a mismatch error.
C3_MatchIff ==
    pc = "matched"
        => /\ (idErr.err = "nil") <=> IntendedMatch(cert, Hint)
           /\ idErr.err # "nil" => idErr.err \in MismatchErrors

\* C4: a hint with neither "<" nor "@" is a fingerprint: one leading 0x is
\* stripped, the match succeeds exactly when the rest equals the certificate's
\* hex fingerprint ignoring case, and the SAN email list is not consulted.
C4_FingerprintHint ==
    (pc = "matched" /\ FingerprintForm(Hint))
        => /\ (idErr.err = "nil")
                <=> SameIgnoringCase(CertHexFingerprint(cert), StripOne0x(Hint))
           /\ idErr.err \in {"nil", "no certificate found with fingerprint"}
           /\ idErr.err # "nil" => idErr.arg = StripOne0x(Hint)
           /\ ~idErr.sanCompared

\* a 0x-prefixed upper-case hint matched the fingerprint, and the certificate
\* carries the hint "aa"-style text among its SAN emails without effect
C4_Witness ==
    /\ pc = "matched"
    /\ Hint = <<"0", "x", "A", "a">>
    /\ cert.Fingerprint = <<"a", "a">>
    /\ cert.EmailAddresses = << <<"a", "a">> >>
    /\ idErr.err = "nil"

----------------------------------------------------------------------------
(* Sign workflow properties, checked under Spec *)

IsPrefix(p, t) == Len(p) <= Len(t) /\ SubSeq(t, 1, Len(p)) = p

\* the encapsulated content carried by a serialized structure
EContent(d) ==
    IF Len(d) >= 3 /\ d[2] = 4
    THEN [present |-> TRUE, bytes |-> SubSeq(d, 4, 3 + d[3])]
    ELSE [present |-> FALSE, bytes |-> <<>>]

\* C5: BeginSigning and SigCreated are each emitted at most once, and
\* SigCreated is emitted only after BeginSigning, both as calls and as records
\* on the status channel.
C5_StatusOrder ==
    /\ Count(trace, "EmitBeginSigning") <= 1
    /\ Count(trace, "EmitSigCreated") <= 1
    /\ Precedes(trace, "EmitBeginSigning", "EmitSigCreated")
    /\ Count(Events(statusOut), "BEGIN_SIGNING") <= 1
    /\ Count(Events(statusOut), "SIG_CREATED") <= 1
    /\ Precedes(Events(statusOut), "BEGIN_SIGNING", "SIG_CREATED")

C5_Witness ==
    /\ pc = "done"
    /\ result = "nil"
    /\ Events(statusOut) = <<"BEGIN_SIGNING", "SIG_CREATED">>

\* C6 as stated: EmitBeginSigning is called before the private-key operation
\* of the card is invoked.
C6_BeginBeforeKeyOp ==
    Precedes(trace, "EmitBeginSigning", "yubikeySigner.Sign")

\* C6 amended: EmitBeginSigning is called at most once, only after sd.Sign and
\* with it the private-key operation has succeeded, and before the structure
\* is serialized, before EmitSigCreated and before any byte reaches stdout.
C6_BeginAfterKeyOp ==
    /\ Count(trace, "EmitBeginSigning") <= 1
    /\ Precedes(trace, "yubikeySigner.Sign", "EmitBeginSigning")
    /\ Count(trace, "EmitBeginSigning") = 1 => sd.signers = 1
    /\ Precedes(trace, "EmitBeginSigning", "sd.ToDER")
    /\ Precedes(trace, "EmitBeginSigning", "EmitSigCreated")
    /\ Precedes(trace, "EmitBeginSigning", "Write")
    /\ stdout # <<>> => Count(trace, "EmitBeginSigning") = 1

C6_Witness ==
    /\ pc = "Detached"
    /\ trace[Len(trace)] = "EmitBeginSigning"
    /\ trace[Len(trace) - 1] = "yubikeySigner.Sign"
    /\ statusOut = <<BeginSigningRec>>
    /\ der = <<>>
    /\ stdout = <<>>

\* C7: when the hint does not match the fetched certificate, Sign fails with
\* "no suitable certificate found", writes nothing to stdout and emits no
\* SigCreated.
C7_MismatchFails ==
    (/\ pc = "done"
     /\ Count(trace, "certificateContainsUserId") = 1
     /\ ~IntendedMatch(cert, Hint))
        => /\ result = "no suitable certificate found"
           /\ stdout = <<>>
           /\ Count(trace, "EmitSigCreated") = 0
           /\ Count(Events(statusOut), "SIG_CREATED") = 0

\* the structure Sign has built when every step before the write succeeded
FinishedSd ==
    [content |-> IF opts.Detach THEN <<>> ELSE dataBuf,
     detached |-> opts.Detach,
     signers |-> 1,
     timestamps |-> IF Len(opts.TimestampAuthority) > 0 THEN 1 ELSE 0,
     certs |-> 1]

\* C8: bytes reach stdout only after session open, certificate fetch,
\* identity validation, input read, construction, sign, optional timestamp,
\* certificate attachment and serialization all succeeded; when one of them
\* fails stdout stays empty.
C8_OutputOnlyAfterAllSteps ==
    /\ stdout # <<>>
         => /\ pc = "done"
            /\ result \in {"nil", "write signature"}
            /\ session = "open"
            /\ idErr.err = "nil"
            /\ f \in {"file", "stdin"}
            /\ sd = FinishedSd
            /\ der = ToDER(sd)
            /\ IsPrefix(stdout, Output(opts.Armor, der))
    /\ (pc = "done" /\ result \notin {"nil", "write signature"})
         => stdout = <<>>
    /\ result = "nil" => stdout = Output(opts.Armor, der)

C8_Witness ==
    /\ pc = "done"
    /\ result = "nil"
    /\ Len(opts.TimestampAuthority) > 0
    /\ sd.timestamps = 1
    /\ Len(dataBuf) = MaxData
    /\ stdout # <<>>

\* C9: a session that was opened is released by the time Sign returns.
C9_SessionReleased ==
    (pc = "done" /\ Count(trace, "Certificate") = 1) => session = "closed"

\* C10: without detach the serialized signature embeds the content read, with
\* detach it embeds no content, and SigCreated reports the request's flag.
C10_DetachFlag ==
    /\ der # <<>>
         => EContent(der) = [present |-> ~opts.Detach,
                             bytes |-> IF opts.Detach THEN <<>> ELSE dataBuf]
    /\ \A i \in DOMAIN statusOut :
         statusOut[i].ev = "SIG_CREATED" => statusOut[i].detached = opts.Detach

C10_Witness ==
    /\ pc = "done"
    /\ result = "nil"
    /\ opts.Detach
    /\ ~opts.Armor
    /\ dataBuf # <<>>
    /\ ~EContent(stdout).present
    /\ Len(statusOut) = 2
    /\ statusOut[2].detached

----------------------------------------------------------------------------
(* Reading an armored signature back *)

\* 6-bit value of a base64 character, -1 for any other byte
B64Val(c) ==
    IF c >= 65 /\ c <= 90 THEN c - 65
    ELSE IF c >= 97 /\ c <= 122 THEN c - 97 + 26
    ELSE IF c >= 48 /\ c <= 57 THEN c - 48 + 52
    ELSE IF c = 43 THEN 62
    ELSE IF c = 47 THEN 63
    ELSE -1

Invalid == <<-1>>

\* decoding of padded base64 text; Invalid when the text is not well formed
RECURSIVE Base64Decode(_)
Base64Decode(t) ==
    IF Len(t) = 0 THEN <<>>
    ELSE IF Len(t) < 4 \/ B64Val(t[1]) = -1 \/ B64Val(t[2]) = -1 THEN Invalid
    ELSE LET a == B64Val(t[1])
             b == B64Val(t[2])
             c == B64Val(t[3])
             d == B64Val(t[4])
         IN IF t[3] = 61
            THEN IF t[4] = 61 /\ Len(t) = 4 /\ b % 16 = 0
                 THEN <<a * 4 + b \div 16>> ELSE Invalid
            ELSE IF c = -1 THEN Invalid
            ELSE IF t[4] = 61
            THEN IF Len(t) = 4 /\ c % 4 = 0
                 THEN <<a * 4 + b \div 16, (b % 16) * 16 + c \div 4>>
                 ELSE Invalid
            ELSE IF d = -1 THEN Invalid
            ELSE LET rest == Base64Decode(SubSeq(t, 5, Len(t))) IN
                 IF rest = Invalid THEN Invalid
                 ELSE <<a * 4 + b \div 16, (b % 16) * 16 + c \div 4,
                        (c % 4) * 64 + d>> \o rest

\* the body lines joined: every line has at most PemLineLength characters
\* and ends with a newline
RECURSIVE JoinLines(_)
JoinLines(t) ==
    IF Len(t) = 0 THEN <<>>
    ELSE LET nl == IndexFrom(t, 10, 1) IN
         IF nl = -1 \/ nl = 0 \/ nl > PemLineLength THEN Invalid
         ELSE LET rest == JoinLines(SubSeq(t, nl + 2, Len(t))) IN
              IF rest = Invalid THEN Invalid ELSE SubSeq(t, 1, nl) \o rest

\* the bytes inside a SIGNED MESSAGE envelope, Invalid without the envelope
PemUnwrap(t) ==
    IF /\ Len(t) >= Len(PemBegin) + Len(PemEnd)
       /\ SubSeq(t, 1, Len(PemBegin)) = PemBegin
       /\ SubSeq(t, Len(t) - Len(PemEnd) + 1, Len(t)) = PemEnd
    THEN LET body == JoinLines(SubSeq(t, Len(PemBegin) + 1, Len(t) - Len(PemEnd)))
         IN IF body = Invalid THEN Invalid ELSE Base64Decode(body)
    ELSE Invalid

\* C11: the bytes unwrapped from the armor-mode output are the bytes that
\* non-armor mode writes for the same inputs: the serialization of the
\* structure, which no step before the write makes depend on the armor flag.
C11_ArmorUnwraps ==
    /\ der # <<>> => der = ToDER(FinishedSd)
    /\ result = "nil"
         => IF opts.Armor THEN PemUnwrap(stdout) = der /\ stdout # der
                          ELSE stdout = der

\* an armored signature of two lines, unwrapped to the serialized bytes
C11_Witness ==
    /\ pc = "done"
    /\ result = "nil"
    /\ opts.Armor
    /\ dataBuf = LongData
    /\ ~opts.Detach
    /\ Len(stdout) > Len(PemBegin) + PemLineLength + 1 + Len(PemEnd)
    /\ PemUnwrap(stdout) = der

\* an armored signature whose base64 text is padded
C11_WitnessPadded ==
    /\ pc = "done"
    /\ result = "nil"
    /\ opts.Armor
    /\ Len(der) % 3 = 1
    /\ PemUnwrap(stdout) = der

----------------------------------------------------------------------------
(* Order and failure properties of Sign, checked under Spec *)

Last(tr) == tr[Len(tr)]

StatusSteps == {"SetupStatus", "EmitBeginSigning", "EmitSigCreated"}

\* the context string with which Sign reports the failure of a call
StageError(step) ==
    CASE step = "GetSigner" -> "open PIV for signing"
      [] step = "Certificate" -> "get identity certificate"
      [] step = "certificateContainsUserId" -> "no suitable certificate found"
      [] step = "os.Open" -> "open message file"
      [] step = "io.Copy" -> "read message to sign"
      [] step = "NewSignedData" -> "create signed data"
      [] step \in {"sd.Sign", "yubikeySigner.Sign"} -> "sign message"
      [] step = "sd.AddTimestamps" -> "add timestamp to signature"
      [] step = "sd.SetCertificates" -> "set certificates in signature"
      [] step = "sd.ToDER" -> "serialize signature"
      [] step = "Write" -> "write signature"
      [] OTHER -> "none"

AllSteps == {"GetSigner", "Certificate", "certificateContainsUserId",
             "SetupStatus", "os.Open", "io.Copy", "NewSignedData", "sd.Sign",
             "yubikeySigner.Sign", "EmitBeginSigning", "sd.Detached",
             "sd.AddTimestamps", "sd.SetCertificates", "sd.ToDER",
             "EmitSigCreated", "Write"}

SigCreatedEmitted ==
    \/ Count(trace, "EmitSigCreated") > 0
    \/ Count(Events(statusOut), "SIG_CREATED") > 0

\* C12: the status channel never makes Sign fail: without a valid descriptor
\* nothing is written to it, no error of Sign stems from a status call, and
\* the result and the bytes on stdout are those fixed by the other inputs and
\* by the step that failed, whatever the descriptor.
C12_StatusBestEffort ==
    /\ Count(trace, "SetupStatus") = 1 => statusFile = (opts.StatusFd > 0)
    /\ opts.StatusFd <= 0 => statusOut = <<>>
    /\ result # "setup status"
    /\ (pc = "done" /\ result # "nil") => Last(trace) \notin StatusSteps
    /\ (pc = "done" /\ result \notin {"nil", "panic"})
         => result = StageError(Last(trace))
    /\ (pc # "done" /\ Len(trace) > 0 /\ Last(trace) \in StatusSteps)
         => result = "running"
    /\ result = "nil" => stdout = Output(opts.Armor, ToDER(FinishedSd))

C12_Witness ==
    /\ pc = "done"
    /\ result = "nil"
    /\ opts.StatusFd = 0
    /\ Count(trace, "EmitBeginSigning") = 1
    /\ Count(trace, "EmitSigCreated") = 1
    /\ statusOut = <<>>
    /\ stdout # <<>>

\* the steps named by the workflow, in the order a successful run makes them
WorkflowSteps == AllSteps \ {"SetupStatus", "os.Open", "yubikeySigner.Sign"}
IsWorkflowStep(x) == x \in WorkflowSteps
ExpectedSteps ==
    <<"GetSigner", "Certificate", "certificateContainsUserId", "io.Copy",
      "NewSignedData", "sd.Sign", "EmitBeginSigning">>
    \o (IF opts.Detach THEN <<"sd.Detached">> ELSE <<>>)
    \o (IF Len(opts.TimestampAuthority) > 0 THEN <<"sd.AddTimestamps">> ELSE <<>>)
    \o <<"sd.SetCertificates", "sd.ToDER", "EmitSigCreated", "Write">>

\* C13: the steps of every execution are an initial part of the fixed
\* sequence, and a successful execution performs exactly that sequence:
\* detach only when requested, timestamp only with a non-empty authority URL.
C13_FixedOrder ==
    /\ IsPrefix(SelectSeq(trace, IsWorkflowStep), ExpectedSteps)
    /\ result = "nil" => SelectSeq(trace, IsWorkflowStep) = ExpectedSteps

C13_Witness ==
    /\ pc = "done"
    /\ result = "nil"
    /\ opts.Detach
    /\ Len(opts.TimestampAuthority) = 0
    /\ Len(SelectSeq(trace, IsWorkflowStep)) = 12

\* C14: a step that fails ends Sign with an error carrying the context string
\* of that step; it is the last step made, and no step is made twice.
C14_FatalOnError ==
    /\ (pc = "done" /\ result # "nil")
         => /\ result = StageError(Last(trace))
            /\ result # "none"
    /\ result \notin {"running", "nil"} => pc = "done"
    /\ \A step \in AllSteps : Count(trace, step) <= 1

\* C15: after the output write Sign returns nil only with the whole output on
\* stdout; a failed write, armored or binary, returns "write signature".
C15_WriteFailureReported ==
    (pc = "done" /\ Count(trace, "Write") = 1)
        => \/ result = "nil" /\ stdout = Output(opts.Armor, der)
           \/ /\ result = "write signature"
              /\ stdout # Output(opts.Armor, der)
              /\ IsPrefix(stdout, Output(opts.Armor, der))

C15_Witness ==
    /\ pc = "done"
    /\ opts.Armor
    /\ result = "write signature"
    /\ Len(stdout) > Len(PemBegin)

\* C16: an input file that was opened is closed when Sign has returned,
\* whatever the later steps did; a failed open leaves nothing to close, and
\* standard input is never closed.
C16_FileClosed ==
    /\ "stdin" \notin closed
    /\ pc = "done" => (("file" \in closed) <=> f = "file")
    /\ "file" \in closed => Count(trace, "os.Open") = 1
    /\ result = "open message file" => f = "nil" /\ closed = {}

C16_Witness ==
    /\ pc = "done"
    /\ f = "file"
    /\ result = "sign message"
    /\ closed = {"file"}

\* C17: the input is the named file exactly when one file argument was given;
\* with none or with several the input is standard input and no file is opened.
C17_InputSource ==
    /\ f = "file" => Len(opts.FileArgs) = 1
    /\ f = "stdin" => Len(opts.FileArgs) # 1
    /\ Count(trace, "os.Open") > 0 => Len(opts.FileArgs) = 1
    /\ Count(trace, "io.Copy") > 0
         => f = IF Len(opts.FileArgs) = 1 THEN "file" ELSE "stdin"

C17_Witness ==
    /\ Len(opts.FileArgs) = 2
    /\ Count(trace, "io.Copy") = 1
    /\ Count(trace, "os.Open") = 0
    /\ f = "stdin"

\* C18: the session is opened at most once and the private-key operation is
\* invoked at most once, only after the identity check succeeded and the input
\* was read; never on an identity mismatch or a read failure.
C18_SignerOnce ==
    /\ Count(trace, "GetSigner") <= 1
    /\ Count(trace, "yubikeySigner.Sign") <= 1
    /\ Precedes(trace, "certificateContainsUserId", "yubikeySigner.Sign")
    /\ Precedes(trace, "io.Copy", "yubikeySigner.Sign")
    /\ Count(trace, "yubikeySigner.Sign") > 0
         => idErr.err = "nil" /\ sd.content \in {dataBuf, <<>>}
    /\ idErr.err \notin {"nil", "pending"} => Count(trace, "yubikeySigner.Sign") = 0
    /\ result \in {"no suitable certificate found", "read message to sign"}
         => Count(trace, "yubikeySigner.Sign") = 0

C18_Witness ==
    /\ pc = "EmitBeginSigning"
    /\ Count(trace, "GetSigner") = 1
    /\ Last(trace) = "yubikeySigner.Sign"
    /\ idErr.err = "nil"
    /\ dataBuf # <<>>

\* C19 as stated: whenever Sign returns an error, no SigCreated was emitted.
C19_SigCreatedMeansSuccess ==
    (pc = "done" /\ result # "nil") => ~SigCreatedEmitted

\* C19 amended: no SigCreated is emitted when Sign fails at a step before the
\* output write; SigCreated is emitted once the signature is serialized, so
\* it is present on success and also when the output write fails.
C19_SigCreatedMeansSerialized ==
    /\ (pc = "done" /\ result \notin {"nil", "write signature"})
         => ~SigCreatedEmitted
    /\ SigCreatedEmitted
         => /\ der = ToDER(FinishedSd)
            /\ result \in {"running", "nil", "write signature"}
    /\ (pc = "done" /\ result \in {"nil", "write signature"})
         => /\ Count(trace, "EmitSigCreated") = 1
            /\ statusFile => Count(Events(statusOut), "SIG_CREATED") = 1

C19_Witness ==
    /\ pc = "done"
    /\ result = "write signature"
    /\ Count(trace, "EmitSigCreated") = 1
    /\ Count(Events(statusOut), "SIG_CREATED") = 1

====
